---- MODULE Spec2Model ----
(***************************************************************************)
(* Model of the Markdown-token-tree to Slack-block converter               *)
(* (src/src/parser/internal.ts) and of its block constructors              *)
(* (src/unnamed/part_001, the module imported as '../slack').              *)
(*                                                                         *)
(* A string is a sequence of one-character strings, so that slice,         *)
(* concatenation, includes and replace are computed character by           *)
(* character.  parseBlocks is a flatMap over the top-level tokens: the     *)
(* state machine consumes the token sequence one token at a time, one      *)
(* action per case of parseToken's switch.                                 *)
(***************************************************************************)
EXTENDS Integers, Sequences, FiniteSets, TLC

VARIABLES
    input,      \* top-level tokens parseBlocks has still to convert
    consumed,   \* top-level tokens already converted, in order
    blocks,     \* blocks produced so far (the flatMap's result so far)
    last,       \* blocks returned by the most recent parseToken call
    status,     \* "running", or "threw" once a handler raised a TypeError
    options,    \* the ParsingOptions passed to parseBlocks
    calls       \* arguments of every call made to options.lists.checkboxPrefix

vars == <<input, consumed, blocks, last, status, options, calls>>

----------------------------------------------------------------------------
(* Strings and JavaScript values *)

\* JavaScript's undefined / null, as a value distinct from every string.
Undefined == <<"undefined">>

NL == "\n"

\* the backtick character, which a TLA+ string literal cannot hold
BT == "backtick"

Min(a, b) == IF a < b THEN a ELSE b

Rep(c, n) == [i \in 1..n |-> c]

\* s.slice(0, n)
slice(s, n) == SubSeq(s, 1, Min(n, Len(s)))

\* JavaScript truthiness of a string-or-undefined value
Truthy(s) == s # Undefined /\ s # <<>>

\* a || b
OrElse(a, b) == IF Truthy(a) THEN a ELSE b

\* a ?? b
Coalesce(a, b) == IF a # Undefined THEN a ELSE b

\* s.includes(c)
includes(s, c) == \E i \in 1..Len(s) : s[i] = c

RECURSIVE ConcatAll(_)
\* parts.join('')
ConcatAll(parts) ==
    IF parts = <<>> THEN <<>> ELSE Head(parts) \o ConcatAll(Tail(parts))

RECURSIVE join(_, _)
\* parts.join(sep)
join(parts, sep) ==
    IF parts = <<>> THEN <<>>
    ELSE IF Len(parts) = 1 THEN parts[1]
    ELSE parts[1] \o sep \o join(Tail(parts), sep)

RECURSIVE DecimalString(_)
\* the digits a template literal prints for a non-negative integer
DecimalString(n) ==
    LET d == <<"0", "1", "2", "3", "4", "5", "6", "7", "8", "9">>
    IN  IF n < 10 THEN <<d[n + 1]>>
        ELSE DecimalString(n \div 10) \o <<d[(n % 10) + 1]>>

RECURSIVE replaceAll(_, _, _)
\* s.replace(/c/g, by), splitting s in halves down to single characters
replaceAll(s, c, by) ==
    IF Len(s) = 0 THEN <<>>
    ELSE IF Len(s) = 1 THEN (IF s[1] = c THEN by ELSE s)
    ELSE LET h == Len(s) \div 2
         IN  replaceAll(SubSeq(s, 1, h), c, by)
                 \o replaceAll(SubSeq(s, h + 1, Len(s)), c, by)

----------------------------------------------------------------------------
(* Block constructors *)

MAX_TEXT_LENGTH == 3000
MAX_TABLE_ROWS == 100
MAX_TABLE_COLUMNS == 20
MAX_HEADER_LENGTH == 150
MAX_IMAGE_TITLE_LENGTH == 2000
MAX_IMAGE_ALT_TEXT_LENGTH == 2000

\* Every block has the same fields; a field its kind does not carry is
\* Undefined (rows: the empty sequence).
Block(type) ==
    [type |-> type, text |-> Undefined, image_url |-> Undefined,
     alt_text |-> Undefined, title |-> Undefined, rows |-> <<>>]

section(text) ==
    [Block("section") EXCEPT !.text = slice(text, MAX_TEXT_LENGTH)]

divider == Block("divider")

header(text) ==
    [Block("header") EXCEPT !.text = slice(text, MAX_HEADER_LENGTH)]

\* altText.slice raises a TypeError when altText is undefined
imageThrows(altText) == altText = Undefined

\* image() with the title cap forgotten
image_TitleUncapped(url, altText, title) ==
    [Block("image") EXCEPT
        !.image_url = url,
        !.alt_text = slice(altText, MAX_IMAGE_ALT_TEXT_LENGTH),
        !.title = IF Truthy(title) THEN title ELSE Undefined]

image(url, altText, title) ==
    [Block("image") EXCEPT
        !.image_url = url,
        !.alt_text = slice(altText, MAX_IMAGE_ALT_TEXT_LENGTH),
        !.title = IF Truthy(title)
                  THEN slice(title, MAX_IMAGE_TITLE_LENGTH)
                  ELSE Undefined]

\* table() keeping the last rows instead of the first
table_KeepsLastRows(rows) ==
    LET n == Len(rows)
        kept == SubSeq(rows, n - Min(MAX_TABLE_ROWS, n) + 1, n)
    IN  [Block("table") EXCEPT
            !.rows = [r \in 1..Len(kept) |->
                        SubSeq(kept[r], 1, Min(MAX_TABLE_COLUMNS, Len(kept[r])))]]

table(rows) ==
    LET kept == SubSeq(rows, 1, Min(MAX_TABLE_ROWS, Len(rows)))
    IN  [Block("table") EXCEPT
            !.rows = [r \in 1..Len(kept) |->
                        SubSeq(kept[r], 1, Min(MAX_TABLE_COLUMNS, Len(kept[r])))]]

----------------------------------------------------------------------------
(* Inline rendering *)

isSectionBlock(block) == block.type = "section"

RECURSIVE parsePlainText(_)
\* the fragments, already joined: every caller joins them with ''
parsePlainText(element) ==
    CASE element.type \in {"link", "em", "strong", "del"} ->
            ConcatAll([i \in 1..Len(element.tokens) |->
                          parsePlainText(element.tokens[i])])
      [] element.type = "br" -> <<>>
      [] element.type = "image" -> Coalesce(element.title, element.href)
      [] element.type \in {"codespan", "text", "html"} -> element.raw

RECURSIVE parseMrkdwn(_)

\* the link case without the space after '>'
parseMrkdwn_LinkWithoutTrailingSpace(element) ==
    LET children == ConcatAll([i \in 1..Len(element.tokens) |->
                                  parseMrkdwn(element.tokens[i])])
    IN  CASE element.type = "link" ->
                <<"<">> \o element.href \o <<"|">> \o children \o <<">">>
          [] element.type = "em" -> <<"_">> \o children \o <<"_">>
          [] element.type = "codespan" -> <<BT>> \o element.text \o <<BT>>
          [] element.type = "strong" -> <<"*">> \o children \o <<"*">>
          [] element.type = "text" -> element.text
          [] element.type = "del" -> <<"~">> \o children \o <<"~">>
          [] OTHER -> <<>>

parseMrkdwn(element) ==
    LET children == ConcatAll([i \in 1..Len(element.tokens) |->
                                  parseMrkdwn(element.tokens[i])])
    IN  CASE element.type = "link" ->
                <<"<">> \o element.href \o <<"|">> \o children \o <<">", " ">>
          [] element.type = "em" -> <<"_">> \o children \o <<"_">>
          [] element.type = "codespan" -> <<BT>> \o element.text \o <<BT>>
          [] element.type = "strong" -> <<"*">> \o children \o <<"*">>
          [] element.type = "text" -> element.text
          [] element.type = "del" -> <<"~">> \o children \o <<"~">>
          [] OTHER -> <<>>

\* the accumulator after addMrkdwn(content, accumulator)
addMrkdwn(content, accumulator) ==
    LET n == Len(accumulator)
    IN  IF n > 0 /\ isSectionBlock(accumulator[n])
        THEN [accumulator EXCEPT ![n].text = @ \o content]
        ELSE Append(accumulator, section(content))

\* whether parsePhrasingContent(element, ...) raises
parsePhrasingContentThrows(element) ==
    /\ element.type = "image"
    /\ imageThrows(OrElse(element.text, OrElse(element.title, element.href)))

\* the image case taking the title before the alt text
parsePhrasingContent_AltFromTitleFirst(element, accumulator) ==
    IF element.type = "image"
    THEN Append(accumulator,
                image(element.href,
                      OrElse(element.title, OrElse(element.text, element.href)),
                      element.title))
    ELSE addMrkdwn(parseMrkdwn(element), accumulator)

\* the accumulator after parsePhrasingContent(element, accumulator)
parsePhrasingContent(element, accumulator) ==
    IF element.type = "image"
    THEN Append(accumulator,
                image(element.href,
                      OrElse(element.text, OrElse(element.title, element.href)),
                      element.title))
    ELSE addMrkdwn(parseMrkdwn(element), accumulator)

RECURSIVE reduceParagraph(_, _)
\* element.tokens.reduce(..., accumulator) over the children still to visit
reduceParagraph(children, accumulator) ==
    IF children = <<>> THEN accumulator
    ELSE reduceParagraph(Tail(children),
                         parsePhrasingContent(Head(children), accumulator))

parseParagraph(element) == reduceParagraph(element.tokens, <<>>)

parseParagraphThrows(element) ==
    \E i \in 1..Len(element.tokens) :
        parsePhrasingContentThrows(element.tokens[i])

parseHeading(element) ==
    header(ConcatAll([i \in 1..Len(element.tokens) |->
                         parsePlainText(element.tokens[i])]))

\* parseCode cutting the code, not the fenced text, so that the closing fence
\* always fits
parseCode_KeepsClosingFence(element) ==
    section(<<BT, BT, BT, NL>>
              \o slice(element.text, MAX_TEXT_LENGTH - 8)
              \o <<NL, BT, BT, BT>>)

parseCode(element) ==
    section(<<BT, BT, BT, NL>> \o element.text \o <<NL, BT, BT, BT>>)

----------------------------------------------------------------------------
(* Lists *)

\* the bullet character of the literal prefix, as one character
BULLET == "bullet"

DefaultPrefix == <<BULLET, " ">>

\* The checkboxPrefix functions a caller may supply; "none" is no function.
\* "boxes" prints a box, "marks" prints "+" for a checked item and the
\* empty string for an unchecked one.
CheckboxPrefixes == {"none", "boxes", "marks"}

\* options.checkboxPrefix?.(checked): Undefined when no function is supplied
callCheckboxPrefix(f, checked) ==
    CASE f = "boxes" -> IF checked = "true" THEN <<"[", "x", "]", " ">>
                        ELSE <<"[", " ", "]", " ">>
      [] f = "marks" -> IF checked = "true" THEN <<"+">> ELSE <<>>
      [] OTHER -> Undefined

\* the early return of the map callback: the item has no first child, or
\* its first child is not a 'text' token with inline children
itemReturnsEarly(item) ==
    \/ item.tokens = <<>>
    \/ item.tokens[1].type # "text"
    \/ item.tokens[1].tokens = <<>>

\* paragraph?.text || ''
itemFallbackText(item) ==
    IF item.tokens = <<>> THEN <<>> ELSE OrElse(item.tokens[1].text, <<>>)

\* paragraph.tokens.filter(not image).flatMap(parseMrkdwn).join('')
itemText(item) ==
    LET kept == SelectSeq(item.tokens[1].tokens, LAMBDA c : c.type # "image")
    IN  ConcatAll([i \in 1..Len(kept) |-> parseMrkdwn(kept[i])])

itemHasCheckedState(item) == item.checked \notin {"null", "undefined"}

RECURSIVE listContents(_, _, _, _)
\* element.items.map(...) over the items still to visit; index is the
\* closure's counter before the first of them
listContents(items, ordered, f, index) ==
    IF items = <<>> THEN <<>>
    ELSE LET item == Head(items)
         IN  IF itemReturnsEarly(item)
             THEN <<itemFallbackText(item)>>
                      \o listContents(Tail(items), ordered, f, index)
             ELSE IF ordered
             THEN <<DecimalString(index + 1) \o <<".", " ">> \o itemText(item)>>
                      \o listContents(Tail(items), ordered, f, index + 1)
             ELSE IF itemHasCheckedState(item)
             THEN <<Coalesce(callCheckboxPrefix(f, item.checked), DefaultPrefix)
                        \o itemText(item)>>
                      \o listContents(Tail(items), ordered, f, index)
             ELSE <<DefaultPrefix \o itemText(item)>>
                      \o listContents(Tail(items), ordered, f, index)

parseList(element, listOptions) ==
    section(join(listContents(element.items, element.ordered,
                              listOptions.checkboxPrefix, 0),
                 <<NL>>))

\* the arguments of the calls parseList makes to checkboxPrefix, in order
parseListCalls(element, listOptions) ==
    LET called == SelectSeq(element.items,
                    LAMBDA item : /\ ~itemReturnsEarly(item)
                                  /\ ~element.ordered
                                  /\ itemHasCheckedState(item)
                                  /\ listOptions.checkboxPrefix # "none")
    IN  [i \in 1..Len(called) |-> called[i].checked]

----------------------------------------------------------------------------
(* Tables *)

Run(type, text, style, url) ==
    [type |-> type, text |-> text, style |-> style, url |-> url]

\* the runs one child of a cell pushes on elements
cellRuns(t) ==
    CASE t.type = "text" -> <<Run("text", t.text, "none", Undefined)>>
      [] t.type = "strong" ->
            <<Run("text", parsePlainText(t), "bold", Undefined)>>
      [] t.type = "em" ->
            <<Run("text", parsePlainText(t), "italic", Undefined)>>
      [] t.type = "del" ->
            <<Run("text", parsePlainText(t), "strike", Undefined)>>
      [] t.type = "codespan" -> <<Run("text", t.text, "code", Undefined)>>
      [] t.type = "link" ->
            <<Run("link", OrElse(parsePlainText(t), t.href), "none", t.href)>>
      [] t.type = "image" ->
            <<Run("text", OrElse(t.title, t.href), "none", Undefined)>>
      [] OTHER -> <<>>

\* the collapse to RawText taking any single run, styled or link included
parseTableCellToRichText_CollapsesAnySingleRun(cell) ==
    LET elements == ConcatAll([i \in 1..Len(cell.tokens) |->
                                  cellRuns(cell.tokens[i])])
    IN  IF Len(elements) = 0
        THEN [type |-> "raw_text", text |-> <<>>, elements |-> <<>>]
        ELSE IF Len(elements) = 1
        THEN [type |-> "raw_text", text |-> elements[1].text,
              elements |-> <<>>]
        ELSE [type |-> "rich_text", text |-> Undefined,
              elements |-> elements]

parseTableCellToRichText(cell) ==
    LET elements == ConcatAll([i \in 1..Len(cell.tokens) |->
                                  cellRuns(cell.tokens[i])])
    IN  IF Len(elements) = 0
        THEN [type |-> "raw_text", text |-> <<>>, elements |-> <<>>]
        ELSE IF /\ Len(elements) = 1
                /\ elements[1].type = "text"
                /\ elements[1].style = "none"
        THEN [type |-> "raw_text", text |-> elements[1].text,
              elements |-> <<>>]
        ELSE [type |-> "rich_text", text |-> Undefined,
              elements |-> elements]

parseTable(element) ==
    LET allRows == <<element.header>> \o element.rows
    IN  table([r \in 1..Len(allRows) |->
                 [c \in 1..Len(allRows[r]) |->
                     parseTableCellToRichText(allRows[r][c])]])

----------------------------------------------------------------------------
(* Block quotes, thematic breaks, raw HTML *)

\* the callback parseBlockquote maps over a paragraph's blocks
\* the callback prefixing every Section, also one without a newline
quoteBlock_PrefixesEverySection(block) ==
    IF isSectionBlock(block)
    THEN [block EXCEPT
            !.text = <<">", " ">> \o replaceAll(@, NL, <<NL, ">", " ">>)]
    ELSE block

quoteBlock(block) ==
    IF isSectionBlock(block) /\ includes(block.text, NL)
    THEN [block EXCEPT
            !.text = <<">", " ">> \o replaceAll(@, NL, <<NL, ">", " ">>)]
    ELSE block

parseBlockquote(element) ==
    LET paragraphs == SelectSeq(element.tokens,
                                LAMBDA child : child.type = "paragraph")
    IN  ConcatAll([i \in 1..Len(paragraphs) |->
            LET parsed == parseParagraph(paragraphs[i])
            IN  [j \in 1..Len(parsed) |-> quoteBlock(parsed[j])]])

parseBlockquoteThrows(element) ==
    \E i \in 1..Len(element.tokens) :
        /\ element.tokens[i].type = "paragraph"
        /\ parseParagraphThrows(element.tokens[i])

parseThematicBreak == divider

\* res.img of the XMLParser's result, as the token carries it:
\*   shape "none": no img key; "single": one entry; "array": a list.
\* An entry is an object of attributes (isObject), or the string the parser
\* gives for a tag without attributes (str, '' for an empty tag).
imgTruthy(res) ==
    \/ res.shape = "array"
    \/ res.shape = "single" /\ (res.imgs[1].isObject \/ res.imgs[1].str # <<>>)

\* img['@_src'], img['@_alt']: undefined on a string
imgSrc(img) == IF img.isObject THEN img.src ELSE Undefined
imgAlt(img) == IF img.isObject THEN img.alt ELSE Undefined

parseHTML(element) ==
    IF imgTruthy(element.res)
    THEN [i \in 1..Len(element.res.imgs) |->
            LET img == element.res.imgs[i]
            IN  image(imgSrc(img), OrElse(imgAlt(img), imgSrc(img)), Undefined)]
    ELSE <<>>

parseHTMLThrows(element) ==
    /\ imgTruthy(element.res)
    /\ \E i \in 1..Len(element.res.imgs) :
          LET img == element.res.imgs[i]
          IN  imageThrows(OrElse(imgAlt(img), imgSrc(img)))

----------------------------------------------------------------------------
(* Tokens: the input of parseBlocks, as marked's lexer shapes it *)

\* an inline (phrasing) token; a field its kind does not carry is Undefined
Inline(type) ==
    [type |-> type, raw |-> <<>>, text |-> <<>>, href |-> Undefined,
     title |-> Undefined, tokens |-> <<>>]

Text(s) == [Inline("text") EXCEPT !.raw = s, !.text = s]
Strong(children) == [Inline("strong") EXCEPT !.tokens = children]
Em(children) == [Inline("em") EXCEPT !.tokens = children]
Del(children) == [Inline("del") EXCEPT !.tokens = children]
Codespan(s) ==
    [Inline("codespan") EXCEPT !.raw = <<BT>> \o s \o <<BT>>, !.text = s]
Link(href, children) ==
    [Inline("link") EXCEPT !.href = href, !.tokens = children]
Br == Inline("br")
InlineHTML(s) == [Inline("html") EXCEPT !.raw = s, !.text = s]
Image(href, alt, title) ==
    [Inline("image") EXCEPT !.href = href, !.text = alt, !.title = title]

NoImg == [shape |-> "none", imgs |-> <<>>]

\* a top-level (block) token
Token(type) ==
    [type |-> type, text |-> <<>>, tokens |-> <<>>, ordered |-> FALSE,
     items |-> <<>>, header |-> <<>>, rows |-> <<>>, res |-> NoImg]

Heading(children) == [Token("heading") EXCEPT !.tokens = children]
Paragraph(children) == [Token("paragraph") EXCEPT !.tokens = children]
Code(s) == [Token("code") EXCEPT !.text = s]
Blockquote(children) == [Token("blockquote") EXCEPT !.tokens = children]
List(ordered, items) ==
    [Token("list") EXCEPT !.ordered = ordered, !.items = items]
Table(headerRow, bodyRows) ==
    [Token("table") EXCEPT !.header = headerRow, !.rows = bodyRows]
Hr == Token("hr")
Space == Token("space")
HTML(res) == [Token("html") EXCEPT !.res = res]

Item(checked, children) == [checked |-> checked, tokens |-> children]
\* the block-level 'text' token a list item starts with
ItemText(s, children) == [Text(s) EXCEPT !.tokens = children]
Cell(children) == [tokens |-> children]
ImgTag(src, alt) == [isObject |-> TRUE, str |-> <<>>, src |-> src, alt |-> alt]
ImgString(s) ==
    [isObject |-> FALSE, str |-> s, src |-> Undefined, alt |-> Undefined]

----------------------------------------------------------------------------
(* parseToken and parseBlocks *)

\* one iteration of parseBlocks' flatMap: parseToken on the next token.
\* result: the blocks the handler returns; throws: whether it raises;
\* made: the checkboxPrefix calls it makes.
\* the flatMap feeding a token's leading Section into the Section before it,
\* as addMrkdwn does inside one paragraph
Step_MergesAcrossTokens(type, result, throws, made) ==
    /\ status = "running"
    /\ input # <<>>
    /\ Head(input).type = type
    /\ IF throws
       THEN /\ status' = "threw"
            /\ UNCHANGED <<input, consumed, blocks, last, calls>>
       ELSE /\ blocks' = IF result # <<>> /\ isSectionBlock(result[1])
                         THEN addMrkdwn(result[1].text, blocks) \o Tail(result)
                         ELSE blocks \o result
            /\ last' = result
            /\ consumed' = Append(consumed, Head(input))
            /\ input' = Tail(input)
            /\ calls' = calls \o made
            /\ UNCHANGED status
    /\ UNCHANGED options

Step(type, result, throws, made) ==
    /\ status = "running"
    /\ input # <<>>
    /\ Head(input).type = type
    /\ IF throws
       THEN /\ status' = "threw"
            /\ UNCHANGED <<input, consumed, blocks, last, calls>>
       ELSE /\ blocks' = blocks \o result
            /\ last' = result
            /\ consumed' = Append(consumed, Head(input))
            /\ input' = Tail(input)
            /\ calls' = calls \o made
            /\ UNCHANGED status
    /\ UNCHANGED options

ParseHeadingStep ==
    /\ input # <<>>
    /\ Step("heading", <<parseHeading(Head(input))>>, FALSE, <<>>)

ParseParagraphStep ==
    /\ input # <<>>
    /\ Step("paragraph", parseParagraph(Head(input)),
            parseParagraphThrows(Head(input)), <<>>)

ParseCodeStep ==
    /\ input # <<>>
    /\ Step("code", <<parseCode(Head(input))>>, FALSE, <<>>)

ParseBlockquoteStep ==
    /\ input # <<>>
    /\ Step("blockquote", parseBlockquote(Head(input)),
            parseBlockquoteThrows(Head(input)), <<>>)

ParseListStep ==
    /\ input # <<>>
    /\ Step("list", <<parseList(Head(input), options.lists)>>, FALSE,
            parseListCalls(Head(input), options.lists))

ParseTableStep ==
    /\ input # <<>>
    /\ Step("table", <<parseTable(Head(input))>>, FALSE, <<>>)

ParseThematicBreakStep ==
    /\ input # <<>>
    /\ Step("hr", <<parseThematicBreak>>, FALSE, <<>>)

ParseHTMLStep ==
    /\ input # <<>>
    /\ Step("html", parseHTML(Head(input)), parseHTMLThrows(Head(input)), <<>>)

KnownTypes ==
    {"heading", "paragraph", "code", "blockquote", "list", "table", "hr",
     "html"}

\* the switch's default case
ParseOtherStep ==
    /\ input # <<>>
    /\ Head(input).type \notin KnownTypes
    /\ Step(Head(input).type, <<>>, FALSE, <<>>)

\* parseBlocks has returned `blocks`
Returned == status = "running" /\ input = <<>>

----------------------------------------------------------------------------
(* Bounds of the inputs *)

MaxTokens == 2       \* top-level tokens of a document
MaxChildren == 3     \* inline children of a paragraph
MaxItems == 3        \* items of a list
MaxQuoteChildren == 2 \* children of a block quote
MaxImgs == 3         \* img tags of a raw-HTML token
ExtraChars == 1      \* characters a long string has beyond a cap
ExtraRows == 1       \* rows a long table has beyond the row cap
ExtraCols == 1       \* cells a wide row has beyond the column cap

\* sequences over S of length lo..hi
SeqsOf(S, lo, hi) == UNION {[1..k -> S] : k \in lo..hi}

\* lengths around a cap: empty, one, and cap - 1 up to cap + ExtraChars
Around(cap) == {0, 1} \cup ((cap - 1)..(cap + ExtraChars))

NoOptions == [lists |-> [checkboxPrefix |-> "none"]]
AllOptions == {[lists |-> [checkboxPrefix |-> f]] : f \in CheckboxPrefixes}

InitWith(documents, opts) ==
    /\ input \in documents
    /\ consumed = <<>>
    /\ blocks = <<>>
    /\ last = <<>>
    /\ status = "running"
    /\ options \in opts
    /\ calls = <<>>

----------------------------------------------------------------------------
(* parseBlocks on documents of a few tokens of every kind *)

SmallTable ==
    Table(<<Cell(<<Text(<<"h">>)>>), Cell(<<Strong(<<Text(<<"k">>)>>)>>)>>,
          <<<<Cell(<<Text(<<"1">>)>>), Cell(<<>>)>>>>)

DocumentTokens ==
    { Heading(<<Text(<<"a">>)>>),
      Paragraph(<<Text(<<"a">>)>>),
      Paragraph(<<Text(<<"b">>), Image(<<"u">>, <<"p">>, Undefined),
                  Text(<<"c">>)>>),
      Paragraph(<<Text(Rep("a", MAX_TEXT_LENGTH)),
                  Strong(<<Text(<<"b">>)>>)>>),
      Paragraph(<<Image(Undefined, <<>>, Undefined)>>),
      Code(<<"x">>),
      Blockquote(<<Paragraph(<<Text(<<"q", NL, "r">>)>>)>>),
      Blockquote(<<Paragraph(<<Text(<<NL>> \o Rep("a", MAX_TEXT_LENGTH - 1))>>)>>),
      List(TRUE, <<Item("undefined", <<ItemText(<<"a">>, <<Text(<<"a">>)>>)>>),
                   Item("undefined", <<Code(<<"x">>)>>)>>),
      List(FALSE, <<Item("true", <<ItemText(<<"a">>, <<Text(<<"a">>)>>)>>)>>),
      SmallTable,
      Hr,
      HTML([shape |-> "single", imgs |-> <<ImgTag(<<"u">>, <<"p">>)>>]),
      HTML(NoImg),
      HTML([shape |-> "single", imgs |-> <<ImgTag(Undefined, Undefined)>>]),
      Space }

Init == InitWith(SeqsOf(DocumentTokens, 0, MaxTokens), AllOptions)

Next ==
    \/ ParseHeadingStep
    \/ ParseParagraphStep
    \/ ParseCodeStep
    \/ ParseBlockquoteStep
    \/ ParseListStep
    \/ ParseTableStep
    \/ ParseThematicBreakStep
    \/ ParseHTMLStep
    \/ ParseOtherStep

Spec == Init /\ [][Next]_vars

----------------------------------------------------------------------------
(* The length caps *)

SectionsWithinCap ==
    \A i \in 1..Len(blocks) :
        isSectionBlock(blocks[i]) => Len(blocks[i].text) <= MAX_TEXT_LENGTH

\* C1: every Section block parseBlocks returns has a text of at most 3000
\* characters, also a Section that addMrkdwn appended further children to
\* and a Section that parseBlockquote rewrote.
C1_SectionTextAtMost3000 == SectionsWithinCap

\* headings and images whose texts lie around the caps
CapHeadings ==
    {Heading(<<Text(Rep("h", n))>> \o more) :
        n \in Around(MAX_HEADER_LENGTH),
        more \in {<<>>, <<Em(<<Text(<<"i">>)>>)>>}}

CapImages ==
    {Paragraph(<<Image(<<"u">>, Rep("p", a),
                       IF t < 0 THEN Undefined ELSE Rep("t", t))>>) :
        a \in Around(MAX_IMAGE_ALT_TEXT_LENGTH),
        t \in {-1} \cup Around(MAX_IMAGE_TITLE_LENGTH)}

CapHTMLs ==
    {HTML([shape |-> "single",
           imgs |-> <<ImgTag(Rep("s", n), Rep("p", a))>>]) :
        n \in {1, MAX_IMAGE_ALT_TEXT_LENGTH + ExtraChars},
        a \in Around(MAX_IMAGE_ALT_TEXT_LENGTH)}

CapDocuments ==
    {<<t>> : t \in CapHeadings \cup CapImages \cup CapHTMLs}
        \cup {<<h, p>> : h \in CapHeadings, p \in CapImages}

InitCaps == InitWith(CapDocuments, {NoOptions})

NextCaps == ParseHeadingStep \/ ParseParagraphStep \/ ParseHTMLStep

SpecCaps == InitCaps /\ [][NextCaps]_vars

\* the image token a paragraph of CapImages holds
CapImageOf(token) == token.tokens[1]

\* C2: every Header block has a text of at most 150 characters; every Image
\* block has an alt text of at most 2000 characters and, when it has a
\* title, a title of at most 2000 characters; each of the two is cut on
\* its own: the alt text is as long as its source (alt, else title) up to
\* 2000, the title as long as the token's title up to 2000, whatever the
\* length of the other.
C2_HeaderAndImageCaps ==
    /\ \A i \in 1..Len(blocks) :
          /\ blocks[i].type = "header" =>
                Len(blocks[i].text) <= MAX_HEADER_LENGTH
          /\ blocks[i].type = "image" =>
                /\ Len(blocks[i].alt_text) <= MAX_IMAGE_ALT_TEXT_LENGTH
                /\ blocks[i].title # Undefined =>
                      Len(blocks[i].title) <= MAX_IMAGE_TITLE_LENGTH
    /\ (consumed # <<>> /\ consumed[Len(consumed)] \in CapImages) =>
          LET img == CapImageOf(consumed[Len(consumed)])
              src == OrElse(img.text, OrElse(img.title, img.href))
          IN  /\ Len(last) = 1
              /\ Len(last[1].alt_text)
                    = Min(Len(src), MAX_IMAGE_ALT_TEXT_LENGTH)
              /\ Truthy(img.title) =>
                    Len(last[1].title)
                        = Min(Len(img.title), MAX_IMAGE_TITLE_LENGTH)
              /\ ~Truthy(img.title) => last[1].title = Undefined

\* a heading over the cap was cut, and after it an image whose alt text was
\* over the cap was cut while its shorter title was kept whole
C2_Witness ==
    /\ Len(consumed) = 2
    /\ Len(consumed[1].tokens[1].text) > MAX_HEADER_LENGTH
    /\ Len(blocks[1].text) = MAX_HEADER_LENGTH
    /\ Len(CapImageOf(consumed[2]).text) > MAX_IMAGE_ALT_TEXT_LENGTH
    /\ Len(CapImageOf(consumed[2]).title) = MAX_IMAGE_TITLE_LENGTH - 1
    /\ Len(blocks[2].alt_text) = MAX_IMAGE_ALT_TEXT_LENGTH
    /\ blocks[2].title = CapImageOf(consumed[2]).title

----------------------------------------------------------------------------
(* Tables around the row and column caps *)

\* the text that names the cell in column c of row r (row 0: the header)
CellName(r, c) == DecimalString(r) \o <<",">> \o DecimalString(c)

CellAt(r, c) ==
    Cell(CASE c % 3 = 2 -> <<Strong(<<Text(CellName(r, c))>>)>>
           [] c % 3 = 0 -> <<Link(<<"u">>, <<Text(CellName(r, c))>>)>>
           [] OTHER -> <<Text(CellName(r, c))>>)

RowOf(r, width) == [c \in 1..width |-> CellAt(r, c)]

\* a header row of hw cells and nBody body rows, the odd ones of bw cells
\* and the even ones of hw cells
TableOf(nBody, hw, bw) ==
    Table(RowOf(0, hw),
          [r \in 1..nBody |-> RowOf(r, IF r % 2 = 1 THEN bw ELSE hw)])

BodyRowCounts ==
    {0, 1} \cup ((MAX_TABLE_ROWS - 2)..(MAX_TABLE_ROWS - 1 + ExtraRows))

RowWidths ==
    {0, 1} \cup ((MAX_TABLE_COLUMNS - 1)..(MAX_TABLE_COLUMNS + ExtraCols))

TableDocuments ==
    {<<TableOf(n, hw, bw)>> : n \in BodyRowCounts, hw \in RowWidths,
                              bw \in RowWidths}

InitTable == InitWith(TableDocuments, {NoOptions})

NextTable == ParseTableStep

SpecTable == InitTable /\ [][NextTable]_vars

\* the text a converted cell shows
CellShown(cell) ==
    IF cell.type = "raw_text" THEN cell.text ELSE cell.elements[1].text

\* header row followed by body rows
AllRows(token) == <<token.header>> \o token.rows

\* C3: the Table block has at most 100 rows and each row at most 20 cells;
\* its rows are the first rows of (header, then body rows) in order, and
\* each row's cells are that row's first cells in order.
C3_TableKeepsLeadingRowsAndCells ==
    (Len(consumed) = 1 /\ consumed[1].type = "table") =>
        LET all == AllRows(consumed[1])
            out == last[1].rows
        IN  /\ Len(last) = 1 /\ last[1].type = "table"
            /\ Len(out) <= MAX_TABLE_ROWS
            /\ Len(out) = Min(Len(all), MAX_TABLE_ROWS)
            /\ \A r \in 1..Len(out) :
                  /\ Len(out[r]) <= MAX_TABLE_COLUMNS
                  /\ Len(out[r]) = Min(Len(all[r]), MAX_TABLE_COLUMNS)
                  /\ \A c \in 1..Len(out[r]) :
                        CellShown(out[r][c]) = CellName(r - 1, c)

\* a table of more than 100 rows, some wider than 20 cells, was converted
\* and cut to 100 rows of at most 20 cells
C3_Witness ==
    /\ Len(consumed) = 1 /\ consumed[1].type = "table"
    /\ Len(AllRows(consumed[1])) > MAX_TABLE_ROWS
    /\ Len(consumed[1].header) > MAX_TABLE_COLUMNS
    /\ Len(consumed[1].rows[1]) < MAX_TABLE_COLUMNS
    /\ Len(last[1].rows) = MAX_TABLE_ROWS
    /\ Len(last[1].rows[1]) = MAX_TABLE_COLUMNS

----------------------------------------------------------------------------
(* Paragraphs *)

ParagraphInlines ==
    { Text(<<"a">>),
      Text(<<"b", ")">>),
      Text(<<"c", " ">>),
      Text(<<"d", NL, "e">>),
      Strong(<<Em(<<Text(<<"i">>)>>), Text(<<"s">>)>>),
      Em(<<Text(<<"e">>)>>),
      Del(<<Text(<<"x">>)>>),
      Link(<<"u">>, <<Text(<<"l">>)>>),
      Br,
      Image(<<"u">>, <<"p">>, <<"t">>),
      Image(<<"v">>, <<>>, Undefined),
      Image(Undefined, <<>>, Undefined) }
        \cup {Text(Rep("a", n)) :
                n \in (MAX_TEXT_LENGTH - 1)..(MAX_TEXT_LENGTH + ExtraChars)}

ParagraphDocuments ==
    {<<Paragraph(cs)>> : cs \in SeqsOf(ParagraphInlines, 0, MaxChildren)}

InitParagraph == InitWith(ParagraphDocuments, {NoOptions})

NextParagraph == ParseParagraphStep

SpecParagraph == InitParagraph /\ [][NextParagraph]_vars

\* a paragraph was converted without raising
ParagraphDone == Len(consumed) = 1 /\ consumed[1].type = "paragraph"

\* the length of the longest prefix of children that holds no image
RECURSIVE RunLength(_)
RunLength(children) ==
    IF children = <<>> \/ Head(children).type = "image" THEN 0
    ELSE 1 + RunLength(Tail(children))

\* what the claim expects of a paragraph's children: the kind of each
\* block, and the full text of each run of non-image children
RECURSIVE ExpectedOfChildren(_)
ExpectedOfChildren(children) ==
    IF children = <<>> THEN <<>>
    ELSE IF Head(children).type = "image"
    THEN <<[type |-> "image", text |-> Head(children).href]>>
            \o ExpectedOfChildren(Tail(children))
    ELSE LET k == RunLength(children)
         IN  <<[type |-> "section",
                text |-> ConcatAll([i \in 1..k |-> parseMrkdwn(children[i])])]>>
                \o ExpectedOfChildren(SubSeq(children, k + 1, Len(children)))

Whitespace == {" ", NL}
StyleDelimiters == {"*", "_", "~"}
StyledTypes == {"strong", "em", "del"}

\* C5: in the Section text of a paragraph, a strong, emphasis or
\* strikethrough child that directly follows a text child ending in a
\* non-whitespace character is separated from it by exactly one space; no
\* space is added after a text ending in whitespace, nor before a styled
\* child that comes first.  Stated for the first two children.
C5_SpaceBeforeStyledChild ==
    (ParagraphDone /\ consumed[1].tokens # <<>>) =>
        LET cs == consumed[1].tokens
            t == cs[1].text
            out == last[1].text
        IN  /\ cs[1].type \in StyledTypes => out[1] \in StyleDelimiters
            /\ ( /\ Len(cs) >= 2
                 /\ cs[1].type = "text"
                 /\ cs[2].type \in StyledTypes
                 /\ Len(t) \in 1..(MAX_TEXT_LENGTH - 2) ) =>
                    IF t[Len(t)] \in Whitespace
                    THEN out[Len(t) + 1] \in StyleDelimiters
                    ELSE /\ out[Len(t) + 1] = " "
                         /\ out[Len(t) + 2] \in StyleDelimiters

----------------------------------------------------------------------------
(* Lists *)

ListItems ==
    { Item("undefined", <<ItemText(<<"a">>, <<Text(<<"a">>)>>)>>),
      Item("undefined",
           <<ItemText(<<"b", "c">>,
                      <<Text(<<"b">>), Image(<<"u">>, <<"p">>, Undefined),
                        Strong(<<Text(<<"c">>)>>)>>)>>),
      Item("true", <<ItemText(<<"t">>, <<Text(<<"t">>)>>)>>),
      Item("false", <<ItemText(<<"f">>, <<Text(<<"f">>)>>)>>),
      Item("null", <<ItemText(<<"n">>, <<Text(<<"n">>)>>)>>),
      Item("undefined", <<Code(<<"x">>)>>),
      Item("true", <<Code(<<"y">>)>>),
      Item("undefined", <<>>) }

ListDocuments ==
    {<<List(ordered, items)>> :
        ordered \in BOOLEAN, items \in SeqsOf(ListItems, 1, MaxItems)}

InitList == InitWith(ListDocuments, AllOptions)

NextList == ParseListStep

SpecList == InitList /\ [][NextList]_vars

ListDone == Len(consumed) = 1 /\ consumed[1].type = "list"

\* the rendered text of an item: its first child's inline children without
\* the images, or its first child's own text when it has none
RenderedItem(item) ==
    IF itemReturnsEarly(item) THEN itemFallbackText(item) ELSE itemText(item)

\* C6: an ordered list of n items gives one Section of n newline-joined
\* lines, the k-th being "k. " followed by the k-th item's rendered text,
\* for every item, also one whose first child is not a text token with
\* inline children.
C6_OrderedLinesNumberedPerItem ==
    (ListDone /\ consumed[1].ordered) =>
        LET items == consumed[1].items
            lines == [k \in 1..Len(items) |->
                        DecimalString(k) \o <<".", " ">>
                            \o RenderedItem(items[k])]
        IN  /\ Len(last) = 1
            /\ last[1].type = "section"
            /\ last[1].text = slice(join(lines, <<NL>>), MAX_TEXT_LENGTH)

\* the prefix the claim gives an item of an unordered list
ClaimedPrefix(item, f) ==
    IF itemHasCheckedState(item) /\ f # "none"
    THEN callCheckboxPrefix(f, item.checked)
    ELSE DefaultPrefix

\* C7: in an unordered list an item with a checked state gets the prefix
\* checkboxPrefix(checked), or "(bullet) " when no function is supplied;
\* an item without a checked state gets "(bullet) "; checkboxPrefix is
\* never called for an item of an ordered list or for an item without a
\* checked state.
C7_CheckboxPrefix ==
    ListDone =>
        LET items == consumed[1].items
            f == options.lists.checkboxPrefix
            stated == SelectSeq(items, itemHasCheckedState)
            lines == [k \in 1..Len(items) |->
                        ClaimedPrefix(items[k], f) \o RenderedItem(items[k])]
        IN  /\ consumed[1].ordered => calls = <<>>
            /\ Len(calls) <= Len(stated)
            /\ \A i \in 1..Len(calls) : calls[i] \in {"true", "false"}
            /\ ~consumed[1].ordered =>
                  last[1].text = slice(join(lines, <<NL>>), MAX_TEXT_LENGTH)

----------------------------------------------------------------------------
(* Block quotes *)

QuoteChildren ==
    { Paragraph(<<Text(<<"a">>)>>),
      Paragraph(<<Text(<<"q", NL, "r", NL, "s">>)>>),
      Paragraph(<<Text(<<"q", NL>>), Image(<<"u">>, <<"p">>, Undefined),
                  Text(<<"r">>)>>),
      Paragraph(<<Image(<<"v">>, <<>>, <<"t">>)>>),
      Paragraph(<<Image(Undefined, <<>>, Undefined)>>),
      Paragraph(<<>>),
      Heading(<<Text(<<"h">>)>>),
      List(FALSE, <<Item("undefined", <<ItemText(<<"i">>, <<Text(<<"i">>)>>)>>)>>),
      Code(<<"x", NL, "y">>) }
        \cup {Paragraph(<<Text(<<NL>> \o Rep("a", n))>>) :
                n \in (MAX_TEXT_LENGTH - 2)..(MAX_TEXT_LENGTH - 1 + ExtraChars)}

QuoteDocuments ==
    {<<Blockquote(cs)>> : cs \in SeqsOf(QuoteChildren, 0, MaxQuoteChildren)}

InitQuote == InitWith(QuoteDocuments, {NoOptions})

NextQuote == ParseBlockquoteStep

SpecQuote == InitQuote /\ [][NextQuote]_vars

QuoteDone == Len(consumed) = 1 /\ consumed[1].type = "blockquote"

RECURSIVE SplitLines(_)
\* the lines of s: its pieces between newlines
SplitLines(s) ==
    IF ~includes(s, NL) THEN <<s>>
    ELSE LET i == CHOOSE i \in 1..Len(s) :
                      s[i] = NL /\ \A j \in 1..(i - 1) : s[j] # NL
         IN  <<SubSeq(s, 1, i - 1)>> \o SplitLines(SubSeq(s, i + 1, Len(s)))

\* "> " followed by s with every newline replaced by "\n> "
Quoted(s) == <<">", " ">> \o join(SplitLines(s), <<NL, ">", " ">>)

\* what the claim expects of the blocks of one paragraph of a quote
QuotedBlocks(parsed) ==
    [j \in 1..Len(parsed) |->
        IF parsed[j].type = "section" /\ Len(SplitLines(parsed[j].text)) > 1
        THEN [parsed[j] EXCEPT !.text = Quoted(parsed[j].text)]
        ELSE parsed[j]]

RECURSIVE ExpectedOfQuote(_)
ExpectedOfQuote(children) ==
    IF children = <<>> THEN <<>>
    ELSE (IF Head(children).type = "paragraph"
          THEN QuotedBlocks(parseParagraph(Head(children)))
          ELSE <<>>) \o ExpectedOfQuote(Tail(children))

\* C8: parseBlockquote converts only the paragraph children, in order; a
\* Section whose rendered text holds a newline gets "> " in front and
\* "\n> " for every newline, a Section without a newline keeps its text.
C8_QuoteRewritesMultilineSections ==
    QuoteDone => last = ExpectedOfQuote(consumed[1].tokens)

\* a quote with a dropped heading, a rewritten multi-line Section and a
\* single-line Section left as it was
C8_Witness ==
    /\ QuoteDone
    /\ \E i \in 1..Len(consumed[1].tokens) :
          consumed[1].tokens[i].type = "heading"
    /\ \E i \in 1..Len(last) : last[i].text = <<">", " ", "q", NL, ">", " ">>
    /\ \E i \in 1..Len(last) : last[i].text = <<"r">>

\* C9: every block parseBlockquote returns is a Section: headings, lists
\* and images inside a quote are dropped, also the images of a paragraph
\* child.
C9_QuoteYieldsOnlySections ==
    QuoteDone => \A i \in 1..Len(last) : last[i].type = "section"

----------------------------------------------------------------------------
(* Raw HTML *)

ImgEntries ==
    { ImgTag(<<"u">>, <<"p">>),       \* <img src="u" alt="p"/>
      ImgTag(<<"v">>, Undefined),     \* <img src="v"/>
      ImgTag(<<"w">>, <<>>),          \* <img src="w" alt=""/>
      ImgTag(Undefined, <<"q">>),     \* <img alt="q"/>
      ImgTag(Undefined, Undefined),   \* <img width="5"/>
      ImgString(<<>>),                \* <img/>
      ImgString(<<"x">>) }            \* <img>x</img>

HTMLDocuments ==
    {<<HTML(NoImg)>>}
        \cup {<<HTML([shape |-> "single", imgs |-> <<e>>])>> : e \in ImgEntries}
        \cup {<<HTML([shape |-> "array", imgs |-> es])>> :
                es \in SeqsOf(ImgEntries, 2, MaxImgs)}

InitHTML == InitWith(HTMLDocuments, {NoOptions})

NextHTML == ParseHTMLStep

SpecHTML == InitHTML /\ [][NextHTML]_vars

HTMLDone == Len(consumed) = 1 /\ consumed[1].type = "html"

\* an entry of res.img the claim takes for an img tag: one with attributes
\* or content (the parser gives '' for <img/>)
RecognizedImgs(res) ==
    SelectSeq(res.imgs, LAMBDA e : e.isObject \/ e.str # <<>>)

\* C10: parseHTML returns one Image block per recognized img tag, in
\* order, for a single img as for a list; its url is the src attribute,
\* its alt text the alt attribute when present and non-empty and the src
\* attribute otherwise (as an Image holds it: at most 2000 characters);
\* without an img entry it returns no block.
C10_OneImagePerImgTag ==
    /\ (input # <<>> /\ Head(input).type = "html") => status = "running"
    /\ HTMLDone =>
          LET tags == RecognizedImgs(consumed[1].res)
          IN  /\ Len(last) = Len(tags)
              /\ \A i \in 1..Len(tags) :
                    /\ last[i].type = "image"
                    /\ last[i].image_url = imgSrc(tags[i])
                    /\ last[i].alt_text =
                          slice(IF Truthy(imgAlt(tags[i])) THEN imgAlt(tags[i])
                                ELSE imgSrc(tags[i]),
                                MAX_IMAGE_ALT_TEXT_LENGTH)

----------------------------------------------------------------------------
(* parseBlocks and exceptions *)

\* tokens parseToken has no case for, or whose handler finds nothing to build
ContributesNothing(token) ==
    \/ token.type \notin KnownTypes
    \/ token.type = "html" /\ ~imgTruthy(token.res)

\* C11: parseBlocks never fails with an exception: whatever the tokens, the
\* call returns, and a token of unrecognized kind or a malformed token (an img
\* tag with neither src nor alt, an image token with no url) adds no blocks
\* instead of aborting the conversion.
C11_ParseBlocksNeverThrows ==
    /\ status # "threw"
    /\ (consumed # <<>> /\ ContributesNothing(consumed[Len(consumed)]))
          => last = <<>>

----------------------------------------------------------------------------
(* parseBlocks as a function of the token sequence *)

\* what parseToken returns for one token that does not make it raise
parseToken(token, opts) ==
    CASE token.type = "heading" -> <<parseHeading(token)>>
      [] token.type = "paragraph" -> parseParagraph(token)
      [] token.type = "code" -> <<parseCode(token)>>
      [] token.type = "blockquote" -> parseBlockquote(token)
      [] token.type = "list" -> <<parseList(token, opts.lists)>>
      [] token.type = "table" -> <<parseTable(token)>>
      [] token.type = "hr" -> <<parseThematicBreak>>
      [] token.type = "html" -> parseHTML(token)
      [] OTHER -> <<>>

parseBlocks(tokens, opts) ==
    ConcatAll([i \in 1..Len(tokens) |-> parseToken(tokens[i], opts)])

\* short tokens of every kind, one of them malformed
ConcatTokens ==
    { Heading(<<Text(<<"a">>)>>),
      Paragraph(<<Text(<<"a">>)>>),
      Paragraph(<<Text(<<"b">>), Em(<<Text(<<"e">>)>>)>>),
      Paragraph(<<Text(<<"b">>), Image(<<"u">>, <<"p">>, Undefined),
                  Text(<<"c">>)>>),
      Code(<<"x">>),
      Blockquote(<<Paragraph(<<Text(<<"q", NL, "r">>)>>)>>),
      List(TRUE, <<Item("undefined", <<ItemText(<<"a">>, <<Text(<<"a">>)>>)>>)>>),
      List(FALSE, <<Item("true", <<ItemText(<<"a">>, <<Text(<<"a">>)>>)>>)>>),
      SmallTable,
      Hr,
      HTML([shape |-> "single", imgs |-> <<ImgTag(<<"u">>, <<"p">>)>>]),
      HTML([shape |-> "single", imgs |-> <<ImgTag(Undefined, Undefined)>>]),
      Space }

InitConcat == InitWith(SeqsOf(ConcatTokens, 0, MaxTokens), AllOptions)

SpecConcat == InitConcat /\ [][Next]_vars

\* a paragraph of text and styled text only: one Section
PlainParagraph(token) ==
    /\ token.type = "paragraph"
    /\ token.tokens # <<>>
    /\ \A i \in 1..Len(token.tokens) : token.tokens[i].type # "image"

\* C12: parseBlocks concatenates independent per-token results: whenever it
\* returns for a sequence s ++ t, the blocks are parseBlocks(s) followed by
\* parseBlocks(t), for every way of splitting the tokens; a token of
\* unrecognized kind adds no blocks; and text is never merged across tokens:
\* two adjacent paragraph tokens give two separate Sections.
C12_ConcatenationOfPerTokenResults ==
    Returned =>
        /\ \A k \in 0..Len(consumed) :
              blocks = parseBlocks(SubSeq(consumed, 1, k), options)
                         \o parseBlocks(SubSeq(consumed, k + 1, Len(consumed)),
                                        options)
        /\ blocks = parseBlocks(SelectSeq(consumed,
                        LAMBDA token : token.type \in KnownTypes), options)
        /\ (\A i \in 1..Len(consumed) : PlainParagraph(consumed[i]))
              => /\ Len(blocks) = Len(consumed)
                 /\ \A i \in 1..Len(blocks) : isSectionBlock(blocks[i])

\* parseBlocks has returned two blocks for two adjacent paragraphs
C12_Witness ==
    /\ Returned
    /\ Len(consumed) = 2
    /\ PlainParagraph(consumed[1])
    /\ PlainParagraph(consumed[2])
    /\ Len(blocks) = 2

----------------------------------------------------------------------------
(* parseTable on one cell of every mix of inline children *)

MaxCellChildren == 2   \* inline children of a table cell

CellInlines ==
    { Text(<<"a">>),
      Text(<<>>),
      Strong(<<Text(<<"b">>)>>),
      Em(<<Text(<<"e">>)>>),
      Del(<<Text(<<"d">>)>>),
      Codespan(<<"k">>),
      Link(<<"u">>, <<Text(<<"l">>)>>),
      Link(<<"u">>, <<>>),
      Image(<<"v">>, <<"p">>, <<"t">>),
      Image(<<"v">>, <<"p">>, Undefined),
      Br,
      InlineHTML(<<"<", "i", ">">>) }

CellDocuments ==
    { <<Table(<<Cell(children)>>, <<>>)>> :
        children \in SeqsOf(CellInlines, 0, MaxCellChildren) }

InitCell == InitWith(CellDocuments, {NoOptions})

NextCell == ParseTableStep

SpecCell == InitCell /\ [][NextCell]_vars

CellDone == Returned /\ Len(consumed) = 1 /\ consumed[1].type = "table"

\* the children of the cell, and the cell parseTable returned for it
CellChildren == consumed[1].header[1].tokens
CellReturned == last[1].rows[1][1]

\* the kinds whose run has a style or is a link
StyledOrLink == {"strong", "em", "del", "codespan", "link"}

\* C13: a cell whose children give no run (no children, or only line breaks
\* and raw HTML) is RawText with the empty string; one whose children give
\* exactly one run, plain (no style, not a link), is RawText with that run's
\* text; every other cell is RichText holding all runs in child order, so a
\* cell with a single styled or link run is RichText.
C13_CellCollapsesToRawText ==
    CellDone =>
        LET children == CellChildren
            runs == ConcatAll([i \in 1..Len(children) |-> cellRuns(children[i])])
            cell == CellReturned
        IN  /\ (\A i \in 1..Len(children) : children[i].type \in {"br", "html"})
                  => Len(runs) = 0
            /\ Len(runs) = 0
                  => cell.type = "raw_text" /\ cell.text = <<>>
            /\ (Len(runs) = 1 /\ runs[1].type = "text" /\ runs[1].style = "none")
                  => cell.type = "raw_text" /\ cell.text = runs[1].text
            /\ (\/ Len(runs) > 1
                \/ Len(runs) = 1 /\ (runs[1].type = "link" \/ runs[1].style # "none"))
                  => cell.type = "rich_text" /\ cell.elements = runs
            /\ Len(runs) = Cardinality({i \in 1..Len(children) :
                                           children[i].type \notin {"br", "html"}})
            /\ (Len(children) = 1 /\ children[1].type \in StyledOrLink)
                  => cell.type = "rich_text" /\ Len(cell.elements) = 1

\* a cell with one styled child next to a line break has been returned as
\* RichText
C13_Witness ==
    /\ CellDone
    /\ Len(CellChildren) = 2
    /\ CellChildren[1].type = "strong"
    /\ CellChildren[2].type = "br"
    /\ CellReturned.type = "rich_text"
    /\ Len(CellReturned.elements) = 1

----------------------------------------------------------------------------
(* parseParagraph on one inline token tree *)

MaxKids == 2   \* children of a styled inline token or link

\* inline tokens without rendered children; the last is a code span that
\* carries child tokens all the same
MrkdwnLeaves ==
    { Text(<<"a">>),
      Codespan(<<"k">>),
      Br,
      InlineHTML(<<"<", "i", ">">>),
      Image(<<"v">>, <<"p">>, <<"t">>),
      [Codespan(<<"c">>) EXCEPT !.tokens = <<Text(<<"z">>)>>] }

\* the four kinds that wrap their rendered children
Wrapped(children) ==
    {Strong(children), Em(children), Del(children), Link(<<"u">>, children)}

MrkdwnLevel1 ==
    UNION {Wrapped(children) : children \in SeqsOf(MrkdwnLeaves, 0, MaxKids)}

MrkdwnLevel2 ==
    UNION {Wrapped(<<t>>) \cup Wrapped(<<Text(<<"a">>), t>>) : t \in MrkdwnLevel1}

MrkdwnTrees ==
    (MrkdwnLeaves \ {Image(<<"v">>, <<"p">>, <<"t">>)})
        \cup MrkdwnLevel1 \cup MrkdwnLevel2

MrkdwnDocuments == { <<Paragraph(<<tree>>)>> : tree \in MrkdwnTrees }

InitMrkdwn == InitWith(MrkdwnDocuments, {NoOptions})

NextMrkdwn == ParseParagraphStep

SpecMrkdwn == InitMrkdwn /\ [][NextMrkdwn]_vars

MrkdwnDone == Returned /\ Len(consumed) = 1 /\ consumed[1].type = "paragraph"

RECURSIVE Rendering(_)
RECURSIVE RenderingOfAll(_)

\* the children of a token rendered one after the other, left to right
RenderingOfAll(children) ==
    IF children = <<>> THEN <<>>
    ELSE Rendering(Head(children)) \o RenderingOfAll(Tail(children))

\* the rendering the rules give for a token
Rendering(element) ==
    IF element.type = "text" THEN element.text
    ELSE IF element.type = "codespan" THEN <<BT>> \o element.text \o <<BT>>
    ELSE IF element.type = "em"
    THEN <<"_">> \o RenderingOfAll(element.tokens) \o <<"_">>
    ELSE IF element.type = "strong"
    THEN <<"*">> \o RenderingOfAll(element.tokens) \o <<"*">>
    ELSE IF element.type = "del"
    THEN <<"~">> \o RenderingOfAll(element.tokens) \o <<"~">>
    ELSE IF element.type = "link"
    THEN <<"<">> \o element.href \o <<"|">> \o RenderingOfAll(element.tokens)
             \o <<">">> \o <<" ">>
    ELSE <<>>

\* C14: parseMrkdwn renders an inline token tree depth-first, left to right:
\* emphasis is '_' children '_', strong '*' children '*', strikethrough
\* '~' children '~', a code span its text between backticks (children not
\* rendered), a link '<' url '|' children '>' and exactly one space, text its
\* text verbatim, every other kind (line break, raw HTML) the empty string.
C14_MrkdwnRendering ==
    MrkdwnDone =>
        /\ Len(last) = 1
        /\ isSectionBlock(last[1])
        /\ last[1].text = Rendering(consumed[1].tokens[1])

\* a link holding a styled child with two children has been rendered
C14_Witness ==
    /\ MrkdwnDone
    /\ consumed[1].tokens[1].type = "link"
    /\ Len(consumed[1].tokens[1].tokens) = 1
    /\ consumed[1].tokens[1].tokens[1].type = "strong"
    /\ Len(consumed[1].tokens[1].tokens[1].tokens) = 2
    /\ last[1].text[Len(last[1].text)] = " "

----------------------------------------------------------------------------
(* parseParagraph on paragraphs holding images *)

\* lengths of an image's texts: empty, one, the cap and beyond it
ImageLengths(cap) == {0, 1} \cup (cap..(cap + ExtraChars))

\* image tokens: url short or long, alt text empty to long, title absent
\* (null), empty or up to long
ImageTokens ==
    {Image(Rep("u", u), Rep("p", a), IF t < 0 THEN Undefined ELSE Rep("t", t)) :
        u \in {1, MAX_IMAGE_ALT_TEXT_LENGTH + 1},
        a \in ImageLengths(MAX_IMAGE_ALT_TEXT_LENGTH),
        t \in {-1} \cup ImageLengths(MAX_IMAGE_TITLE_LENGTH)}

ImageDocuments ==
    UNION {{ <<Paragraph(<<img>>)>>,
             <<Paragraph(<<Text(<<"a">>), img, Text(<<"b">>)>>)>>,
             <<Paragraph(<<img, Image(<<"v">>, <<>>, <<"t">>)>>)>> } :
           img \in ImageTokens}

InitImage == InitWith(ImageDocuments, {NoOptions})

NextImage == ParseParagraphStep

SpecImage == InitImage /\ [][NextImage]_vars

ImageDone == Returned /\ Len(consumed) = 1 /\ consumed[1].type = "paragraph"

\* the image tokens of the paragraph, and the Image blocks returned for it
ImagesOf(token) == SelectSeq(token.tokens, LAMBDA t : t.type = "image")
ImageBlocksOf(bs) == SelectSeq(bs, LAMBDA b : b.type = "image")

\* the first non-empty of alt text, title and url
AltSource(img) ==
    IF img.text # <<>> THEN img.text
    ELSE IF img.title # Undefined /\ img.title # <<>> THEN img.title
    ELSE img.href

HasTitle(img) == img.title # Undefined /\ img.title # <<>>

\* C15 as stated: every image token in a paragraph gives an Image block with
\* the token's url, an alt text equal to the token's alt text when non-empty,
\* otherwise its title when non-empty, otherwise its url, and a title field
\* present exactly when the token has a non-empty title.
C15_ImageFieldsAsStated ==
    ImageDone =>
        LET imgs == ImagesOf(consumed[1])
            out == ImageBlocksOf(last)
        IN  /\ Len(out) = Len(imgs)
            /\ \A i \in 1..Len(imgs) :
                  /\ out[i].image_url = imgs[i].href
                  /\ out[i].alt_text = AltSource(imgs[i])
                  /\ (out[i].title # Undefined) <=> HasTitle(imgs[i])

\* C15, amended: the same, with the alt text being the first 2000
\* characters of the alt text, else title, else url, and the title, when
\* present, the first 2000 characters of the token's title; the url is
\* never cut.
C15_ImageFieldsCut ==
    ImageDone =>
        LET imgs == ImagesOf(consumed[1])
            out == ImageBlocksOf(last)
        IN  /\ Len(out) = Len(imgs)
            /\ \A i \in 1..Len(imgs) :
                  /\ out[i].image_url = imgs[i].href
                  /\ out[i].alt_text
                        = slice(AltSource(imgs[i]), MAX_IMAGE_ALT_TEXT_LENGTH)
                  /\ (out[i].title # Undefined) <=> HasTitle(imgs[i])
                  /\ HasTitle(imgs[i]) =>
                        out[i].title
                          = slice(imgs[i].title, MAX_IMAGE_TITLE_LENGTH)

\* an image between two texts, with no alt text and a title beyond the cap,
\* has given an Image block whose alt text is the title cut
C15_Witness ==
    /\ ImageDone
    /\ Len(consumed[1].tokens) = 3
    /\ consumed[1].tokens[2].type = "image"
    /\ consumed[1].tokens[2].text = <<>>
    /\ HasTitle(consumed[1].tokens[2])
    /\ Len(consumed[1].tokens[2].title) > MAX_IMAGE_ALT_TEXT_LENGTH
    /\ Len(last) = 3
    /\ Len(last[2].alt_text) = MAX_IMAGE_ALT_TEXT_LENGTH
    /\ last[2].title # Undefined

----------------------------------------------------------------------------
(* parseCode on code around the length where the fenced text meets the cap *)

\* the two fences of the template literal in parseCode
OpenFence == <<BT, BT, BT, NL>>
CloseFence == <<NL, BT, BT, BT>>

\* the longest code that fits the cap together with its fences
LongestFencedCode == MAX_TEXT_LENGTH - Len(OpenFence) - Len(CloseFence)

\* code lengths: short, and from just below LongestFencedCode to beyond the cap
CodeLengths ==
    {0, 1, 2} \cup ((LongestFencedCode - 1)..(MAX_TEXT_LENGTH + ExtraChars))

\* code of one repeated character: a letter, a space, a newline, a backtick
CodeDocuments ==
    { <<Code(Rep(c, n))>> : c \in {"a", " ", NL, BT}, n \in CodeLengths }

InitCode == InitWith(CodeDocuments, {NoOptions})

NextCode == ParseCodeStep

SpecCode == InitCode /\ [][NextCode]_vars

CodeDone == Returned /\ Len(consumed) = 1 /\ consumed[1].type = "code"

\* the fenced text before any cap
Fenced(code) == OpenFence \o code \o CloseFence

\* C16 as stated: for code of any length, the Section's text starts with a
\* triple-backtick line and ends with a newline and a closing triple
\* backtick, with the raw code verbatim between them, also when the code is
\* long enough for the 3000-character cap to apply.
C16_FencedAsStated ==
    CodeDone =>
        /\ Len(last) = 1
        /\ isSectionBlock(last[1])
        /\ last[1].text = Fenced(consumed[1].text)

\* C16, amended: the Section's text is the first 3000 characters of the
\* fenced text (triple-backtick line, raw code verbatim, newline, closing
\* triple backtick): code of at most 2992 characters is fenced whole; for
\* longer code the text is 3000 characters long and the end of the fenced
\* text, the closing fence first, is cut off.
C16_FencedThenCut ==
    CodeDone =>
        LET code == consumed[1].text
            text == last[1].text
        IN  /\ Len(last) = 1
            /\ isSectionBlock(last[1])
            /\ Len(text) = Min(Len(Fenced(code)), MAX_TEXT_LENGTH)
            /\ \A i \in 1..Len(text) : text[i] = Fenced(code)[i]
            /\ Len(code) <= LongestFencedCode => text = Fenced(code)
            /\ Len(code) > LongestFencedCode =>
                  /\ Len(text) = MAX_TEXT_LENGTH
                  /\ text # Fenced(code)

\* code one character too long for the cap has been returned without the
\* last backtick of its closing fence
C16_Witness ==
    /\ CodeDone
    /\ consumed[1].text = Rep("a", LongestFencedCode + 1)
    /\ Len(last[1].text) = MAX_TEXT_LENGTH
    /\ SubSeq(last[1].text, MAX_TEXT_LENGTH - 3, MAX_TEXT_LENGTH)
          = <<"a", NL, BT, BT>>

====
